---- MODULE Spec2Model ----
(***************************************************************************)
(* State-machine model of src/app/dashboard/page.tsx (DashboardPage).      *)
(*                                                                         *)
(* The React state of the component, the react-hook-form values, the       *)
(* position of the mount-time checkAuth coroutine and the asynchronous     *)
(* work a submission leaves behind (an awaited addProject call, or a       *)
(* 1000 ms timer in development mode) are the variables.  Each action is   *)
(* one event handler or one continuation, run to its next suspension point *)
(* (React commits the state updates of one continuation together).         *)
(* Calls to collaborators (toast, router.push, addProject, getUserInfo,    *)
(* localStorage.removeItem, setTimeout) are recorded in call logs.         *)
(***************************************************************************)
EXTENDS Integers, Sequences, FiniteSets, TLC

VARIABLES
    devMode,             \* process.env.NODE_ENV === "development" (line 135)
    isLoading,           \* useState(false), line 45
    isClient,            \* useState(false), line 46
    screenshot,          \* useState<File | null>(null), line 47
    authError,           \* useState<string | null>(null), line 48
    searchTerm,          \* useState(""), line 49
    showOnlyMyProjects,  \* useState(false), line 50
    currentUsername,     \* useState<string | null>(null), line 51
    activeTab,           \* useState("projects"), line 52
    form,                \* values held by useForm, lines 83-92
    authPc,              \* position of checkAuth, lines 56-78
    requests,            \* addProject calls awaited at line 154, oldest first
    timers,              \* setTimeout callbacks of line 137 not yet run
    toasts,              \* calls of toast(), oldest first
    submits,             \* invocations of onSubmit
    addProjectCalls,     \* calls of addProject
    timersScheduled,     \* calls of setTimeout
    getUserInfoCalls,    \* calls of getUserInfo
    loginPushes,         \* calls of router.push("/login")
    tokenRemovals        \* calls of localStorage.removeItem("token")

vars == <<devMode, isLoading, isClient, screenshot, authError, searchTerm,
          showOnlyMyProjects, currentUsername, activeTab, form, authPc,
          requests, timers, toasts, submits, addProjectCalls,
          timersScheduled, getUserInfoCalls, loginPushes, tokenRemovals>>

uiVars == <<isLoading, isClient, screenshot, authError, searchTerm,
            showOnlyMyProjects, currentUsername, activeTab, form>>

callVars == <<toasts, submits, addProjectCalls, timersScheduled,
              getUserInfoCalls, loginPushes, tokenRemovals>>

(***************************************************************************)
(* Bounds of the exploration.                                              *)
(***************************************************************************)
MaxSubmits == 2        \* onSubmit invocations explored
MaxLoginClicks == 2    \* clicks on "Back to Login" explored

(***************************************************************************)
(* Values.                                                                 *)
(***************************************************************************)
NULL == "<null>"
UNDEFINED == "<undefined>"

Files == {"shot1.png", "shot2.png"}

\* e.target.files of a change event: null, empty, or one or two files.
FileLists == {<<>>} \cup {<<f>> : f \in Files}
                    \cup {<<f, g>> : f \in Files, g \in Files}

TabValues == {"projects", "add"}

SearchInputs == {"", "todo"}

FieldNames == {"title", "hostedLink", "githubLink", "description",
               "githubUsername"}

\* What the user types into each field.
FieldInputs(name) ==
    CASE name = "title" -> {"", "A", "My App"}
      [] name = "hostedLink" -> {"", "http://", "https://demo.app"}
      [] name = "githubLink" -> {"", "github.com/u/r", "https://github.com/u/r"}
      [] name = "description" -> {"", "A demo project."}
      [] name = "githubUsername" -> {"", "zed"}

\* What getUserInfo resolves to: a falsy value, or a user whose name is
\* missing, empty or a login.
UserInfos == {[present |-> FALSE, name |-> UNDEFINED],
              [present |-> TRUE, name |-> UNDEFINED],
              [present |-> TRUE, name |-> ""],
              [present |-> TRUE, name |-> "alice"]}

\* JavaScript truthiness of a string-or-undefined value (line 72).
Falsy(v) == v \in {"", UNDEFINED, NULL}

\* What addProject rejects with: an Error with a message, or another value.
Rejections == {[isError |-> TRUE, message |-> "Network error"],
               [isError |-> FALSE, message |-> ""]}

AuthResults == {"authenticated", "unauthenticated", "throws"}

DefaultValues ==
    [title |-> "", hostedLink |-> "", githubLink |-> "", description |-> "",
     githubUsername |-> ""]

AuthErrorMessage == "Authentication error. Please try logging in again."

MissingScreenshotToast ==
    [title |-> "Error",
     description |-> "Please upload a screenshot of your project.",
     variant |-> "destructive"]

SuccessToast ==
    [title |-> "Project added!",
     description |-> "Your project has been successfully added.",
     variant |-> "default"]

ErrorToast(error) ==
    [title |-> "Error",
     description |-> IF error.isError THEN error.message
                     ELSE "Something went wrong. Please try again.",
     variant |-> "destructive"]

(***************************************************************************)
(* projectSchema, lines 24-40.                                             *)
(***************************************************************************)
\* z.string().url() (zod 3) accepts a text exactly when `new URL(text)`
\* does not throw.  The verdict is tabulated on the texts the two URL
\* fields can hold here, and is defined on no other text:
\*   ""                        no scheme and no base URL: failure
\*   "http://"                 special scheme with an empty host: failure
\*   "github.com/u/r"          no ":" ends a scheme, no base URL: failure
\*   "https://demo.app"        scheme https, host demo.app
\*   "https://github.com/u/r"  scheme https, host github.com, path /u/r
UrlFieldTexts ==
    {DefaultValues.hostedLink, DefaultValues.githubLink}
        \cup FieldInputs("hostedLink") \cup FieldInputs("githubLink")

IsUrlOfFieldText ==
    [text \in UrlFieldTexts |->
        CASE text = "" -> FALSE
          [] text = "http://" -> FALSE
          [] text = "github.com/u/r" -> FALSE
          [] text = "https://demo.app" -> TRUE
          [] text = "https://github.com/u/r" -> TRUE]

\* projectSchema on the values the form can hold (URL fields in
\* UrlFieldTexts).
projectSchema(values) ==
    /\ Len(values.title) >= 2
    /\ IsUrlOfFieldText[values.hostedLink]
    /\ IsUrlOfFieldText[values.githubLink]
    /\ Len(values.description) >= 10
    /\ Len(values.githubUsername) >= 1

(***************************************************************************)
(* What is rendered, lines 180-215 and 219-360.                            *)
(***************************************************************************)
LoadingView == ~isClient
AuthErrorView == isClient /\ authError # NULL
DashboardView == isClient /\ authError = NULL
ProjectsTabView == DashboardView /\ activeTab = "projects"
AddTabView == DashboardView /\ activeTab = "add"
SubmitDisabled == isLoading

Init ==
    /\ devMode \in BOOLEAN
    /\ isLoading = FALSE
    /\ isClient = FALSE
    /\ screenshot = NULL
    /\ authError = NULL
    /\ searchTerm = ""
    /\ showOnlyMyProjects = FALSE
    /\ currentUsername = NULL
    /\ activeTab = "projects"
    /\ form = DefaultValues
    /\ authPc = "mount"
    /\ requests = <<>>
    /\ timers = 0
    /\ toasts = <<>>
    /\ submits = 0
    /\ addProjectCalls = 0
    /\ timersScheduled = 0
    /\ getUserInfoCalls = 0
    /\ loginPushes = 0
    /\ tokenRemovals = 0

(***************************************************************************)
(* checkAuth, lines 55-81.                                                 *)
(***************************************************************************)
\* Variant: the unauthenticated branch lacks its return (line 63).
CheckAuth_NoReturn(result) ==
    /\ authPc = "mount"
    /\ isClient' = TRUE
    /\ CASE result = "unauthenticated" ->
              /\ loginPushes' = loginPushes + 1
              /\ getUserInfoCalls' = getUserInfoCalls + 1
              /\ authPc' = "awaitUser"
              /\ UNCHANGED authError
         [] result = "authenticated" ->
              /\ getUserInfoCalls' = getUserInfoCalls + 1
              /\ authPc' = "awaitUser"
              /\ UNCHANGED <<authError, loginPushes>>
         [] result = "throws" ->
              /\ authError' = AuthErrorMessage
              /\ authPc' = "failed"
              /\ UNCHANGED <<loginPushes, getUserInfoCalls>>
    /\ UNCHANGED <<devMode, isLoading, screenshot, searchTerm,
                   showOnlyMyProjects, currentUsername, activeTab, form,
                   requests, timers, toasts, submits, addProjectCalls,
                   timersScheduled, tokenRemovals>>

\* The effect body up to its return, its await or its catch.
CheckAuth(result) ==
    /\ authPc = "mount"
    /\ isClient' = TRUE
    /\ CASE result = "unauthenticated" ->
              /\ loginPushes' = loginPushes + 1
              /\ authPc' = "redirected"
              /\ UNCHANGED <<authError, getUserInfoCalls>>
         [] result = "authenticated" ->
              /\ getUserInfoCalls' = getUserInfoCalls + 1
              /\ authPc' = "awaitUser"
              /\ UNCHANGED <<authError, loginPushes>>
         [] result = "throws" ->
              /\ authError' = AuthErrorMessage
              /\ authPc' = "failed"
              /\ UNCHANGED <<loginPushes, getUserInfoCalls>>
    /\ UNCHANGED <<devMode, isLoading, screenshot, searchTerm,
                   showOnlyMyProjects, currentUsername, activeTab, form,
                   requests, timers, toasts, submits, addProjectCalls,
                   timersScheduled, tokenRemovals>>

\* Variant: the pre-fill spares a field the user has already filled.
GetUserInfoResolve_KeepsTyped(userInfo) ==
    /\ authPc = "awaitUser"
    /\ authPc' = "ready"
    /\ IF userInfo.present
       THEN /\ currentUsername' = userInfo.name
            /\ form' = IF form.githubUsername # "" THEN form
                       ELSE [form EXCEPT !.githubUsername =
                            IF Falsy(userInfo.name) THEN "" ELSE userInfo.name]
       ELSE UNCHANGED <<currentUsername, form>>
    /\ UNCHANGED <<devMode, isLoading, isClient, screenshot, authError,
                   searchTerm, showOnlyMyProjects, activeTab, requests,
                   timers, callVars>>

\* Lines 67-73: getUserInfo resolved.
GetUserInfoResolve(userInfo) ==
    /\ authPc = "awaitUser"
    /\ authPc' = "ready"
    /\ IF userInfo.present
       THEN /\ currentUsername' = userInfo.name
            /\ form' = [form EXCEPT !.githubUsername =
                            IF Falsy(userInfo.name) THEN "" ELSE userInfo.name]
       ELSE UNCHANGED <<currentUsername, form>>
    /\ UNCHANGED <<devMode, isLoading, isClient, screenshot, authError,
                   searchTerm, showOnlyMyProjects, activeTab, requests,
                   timers, callVars>>

\* Variant: the catch block reports through a toast, as onSubmit's does.
GetUserInfoReject_Toast ==
    /\ authPc = "awaitUser"
    /\ authPc' = "failed"
    /\ toasts' = Append(toasts, [title |-> "Error",
                                 description |-> AuthErrorMessage,
                                 variant |-> "destructive"])
    /\ UNCHANGED <<devMode, uiVars, requests, timers, submits,
                   addProjectCalls, timersScheduled, getUserInfoCalls,
                   loginPushes, tokenRemovals>>

\* Lines 74-77: getUserInfo rejected.
GetUserInfoReject ==
    /\ authPc = "awaitUser"
    /\ authPc' = "failed"
    /\ authError' = AuthErrorMessage
    /\ UNCHANGED <<devMode, isLoading, isClient, screenshot, searchTerm,
                   showOnlyMyProjects, currentUsername, activeTab, form,
                   requests, timers, callVars>>

\* Lines 200-208: the "Back to Login" button of the authentication-error view.
BackToLogin ==
    /\ AuthErrorView
    /\ tokenRemovals < MaxLoginClicks
    /\ tokenRemovals' = tokenRemovals + 1
    /\ loginPushes' = loginPushes + 1
    /\ UNCHANGED <<devMode, uiVars, authPc, requests, timers, toasts, submits,
                   addProjectCalls, timersScheduled, getUserInfoCalls>>

(***************************************************************************)
(* Handlers of the dashboard, lines 94-110 and 252-255.                    *)
(***************************************************************************)
\* Variant: a cancelled selection clears the stored file.
handleFileChange_ClearsOnEmpty(files) ==
    /\ AddTabView
    /\ IF Len(files) > 0
       THEN screenshot' = files[1]
       ELSE screenshot' = NULL
    /\ UNCHANGED <<devMode, isLoading, isClient, authError, searchTerm,
                   showOnlyMyProjects, currentUsername, activeTab, form,
                   authPc, requests, timers, callVars>>

handleFileChange(files) ==
    /\ AddTabView
    /\ IF Len(files) > 0
       THEN screenshot' = files[1]
       ELSE UNCHANGED screenshot
    /\ UNCHANGED <<devMode, isLoading, isClient, authError, searchTerm,
                   showOnlyMyProjects, currentUsername, activeTab, form,
                   authPc, requests, timers, callVars>>

handleSearch(value) ==
    /\ ProjectsTabView
    /\ searchTerm' = value
    /\ UNCHANGED <<devMode, isLoading, isClient, screenshot, authError,
                   showOnlyMyProjects, currentUsername, activeTab, form,
                   authPc, requests, timers, callVars>>

toggleMyProjects ==
    /\ ProjectsTabView
    /\ showOnlyMyProjects' = ~showOnlyMyProjects
    /\ UNCHANGED <<devMode, isLoading, isClient, screenshot, authError,
                   searchTerm, currentUsername, activeTab, form, authPc,
                   requests, timers, callVars>>

onProjectsChange ==
    /\ ProjectsTabView
    /\ searchTerm' = ""
    /\ UNCHANGED <<devMode, isLoading, isClient, screenshot, authError,
                   showOnlyMyProjects, currentUsername, activeTab, form,
                   authPc, requests, timers, callVars>>

handleTabChange(value) ==
    /\ DashboardView
    /\ activeTab' = value
    /\ UNCHANGED <<devMode, isLoading, isClient, screenshot, authError,
                   searchTerm, showOnlyMyProjects, currentUsername, form,
                   authPc, requests, timers, callVars>>

\* Lines 268-351: a controlled form field edited by the user.
FieldChange(name, value) ==
    /\ AddTabView
    /\ form' = [form EXCEPT ![name] = value]
    /\ UNCHANGED <<devMode, isLoading, isClient, screenshot, authError,
                   searchTerm, showOnlyMyProjects, currentUsername, activeTab,
                   authPc, requests, timers, callVars>>

(***************************************************************************)
(* onSubmit, lines 112-178.                                                *)
(***************************************************************************)
\* Lines 126-132.
FormData(values, file) ==
    [screenshot |-> file, title |-> values.title,
     hostedLink |-> values.hostedLink, githubLink |-> values.githubLink,
     description |-> values.description,
     githubUsername |-> values.githubUsername]

\* Variant: the screenshot check of lines 113-120 is missing.
onSubmit_NoScreenshotCheck ==
    /\ AddTabView
    /\ ~SubmitDisabled
    /\ submits < MaxSubmits
    /\ projectSchema(form)
    /\ submits' = submits + 1
    /\ IF devMode
       THEN /\ timers' = timers + 1
            /\ timersScheduled' = timersScheduled + 1
            /\ isLoading' = FALSE
            /\ UNCHANGED <<requests, addProjectCalls, toasts>>
       ELSE /\ requests' = Append(requests, FormData(form, screenshot))
            /\ addProjectCalls' = addProjectCalls + 1
            /\ isLoading' = TRUE
            /\ UNCHANGED <<timers, timersScheduled, toasts>>
    /\ UNCHANGED <<devMode, isClient, screenshot, authError, searchTerm,
                   showOnlyMyProjects, currentUsername, activeTab, form,
                   authPc, getUserInfoCalls, loginPushes, tokenRemovals>>

\* The submit button (enabled, line 353) pressed with values that pass the
\* resolver (line 267): onSubmit runs up to its return, or up to the end of
\* its finally block (development), or up to its await (production).
onSubmit ==
    /\ AddTabView
    /\ ~SubmitDisabled
    /\ submits < MaxSubmits
    /\ projectSchema(form)
    /\ submits' = submits + 1
    /\ IF screenshot = NULL
       THEN /\ toasts' = Append(toasts, MissingScreenshotToast)
            /\ UNCHANGED <<isLoading, requests, timers, addProjectCalls,
                           timersScheduled>>
       ELSE IF devMode
       THEN /\ timers' = timers + 1
            /\ timersScheduled' = timersScheduled + 1
            /\ isLoading' = FALSE
            /\ UNCHANGED <<requests, addProjectCalls, toasts>>
       ELSE /\ requests' = Append(requests, FormData(form, screenshot))
            /\ addProjectCalls' = addProjectCalls + 1
            /\ isLoading' = TRUE
            /\ UNCHANGED <<timers, timersScheduled, toasts>>
    /\ UNCHANGED <<devMode, isClient, screenshot, authError, searchTerm,
                   showOnlyMyProjects, currentUsername, activeTab, form,
                   authPc, getUserInfoCalls, loginPushes, tokenRemovals>>

\* Lines 137-151: the timer callback of the development path.
TimerFire ==
    /\ timers > 0
    /\ timers' = timers - 1
    /\ toasts' = Append(toasts, SuccessToast)
    /\ form' = DefaultValues
    /\ screenshot' = NULL
    /\ activeTab' = "projects"
    /\ isLoading' = FALSE
    /\ UNCHANGED <<devMode, isClient, authError, searchTerm,
                   showOnlyMyProjects, currentUsername, authPc, requests,
                   submits, addProjectCalls, timersScheduled,
                   getUserInfoCalls, loginPushes, tokenRemovals>>

\* Variant: the switch to the projects tab (line 166) is missing.
AddProjectResolve_NoTabSwitch ==
    /\ requests # <<>>
    /\ requests' = Tail(requests)
    /\ toasts' = Append(toasts, SuccessToast)
    /\ form' = DefaultValues
    /\ screenshot' = NULL
    /\ isLoading' = FALSE
    /\ UNCHANGED <<devMode, isClient, authError, searchTerm,
                   showOnlyMyProjects, currentUsername, activeTab, authPc,
                   timers, submits, addProjectCalls, timersScheduled,
                   getUserInfoCalls, loginPushes, tokenRemovals>>

\* Lines 154-166 and 175-177: addProject resolved.
AddProjectResolve ==
    /\ requests # <<>>
    /\ requests' = Tail(requests)
    /\ toasts' = Append(toasts, SuccessToast)
    /\ form' = DefaultValues
    /\ screenshot' = NULL
    /\ activeTab' = "projects"
    /\ isLoading' = FALSE
    /\ UNCHANGED <<devMode, isClient, authError, searchTerm,
                   showOnlyMyProjects, currentUsername, authPc, timers,
                   submits, addProjectCalls, timersScheduled,
                   getUserInfoCalls, loginPushes, tokenRemovals>>

\* Variant: the catch block re-issues the request instead of reporting.
AddProjectReject_Retry(error) ==
    /\ requests # <<>>
    /\ addProjectCalls < MaxSubmits + 1
    /\ addProjectCalls' = addProjectCalls + 1
    /\ UNCHANGED <<devMode, uiVars, authPc, requests, timers, toasts,
                   submits, timersScheduled, getUserInfoCalls, loginPushes,
                   tokenRemovals>>

\* Variant: the finally block (lines 175-177) is missing.
AddProjectReject_KeepsLoading(error) ==
    /\ requests # <<>>
    /\ requests' = Tail(requests)
    /\ toasts' = Append(toasts, ErrorToast(error))
    /\ UNCHANGED <<devMode, uiVars, authPc, timers, submits,
                   addProjectCalls, timersScheduled, getUserInfoCalls,
                   loginPushes, tokenRemovals>>

\* Lines 168-177: addProject rejected.
AddProjectReject(error) ==
    /\ requests # <<>>
    /\ requests' = Tail(requests)
    /\ toasts' = Append(toasts, ErrorToast(error))
    /\ isLoading' = FALSE
    /\ UNCHANGED <<devMode, isClient, screenshot, authError, searchTerm,
                   showOnlyMyProjects, currentUsername, activeTab, form,
                   authPc, timers, submits, addProjectCalls, timersScheduled,
                   getUserInfoCalls, loginPushes, tokenRemovals>>

Next ==
    \/ \E result \in AuthResults : CheckAuth(result)
    \/ \E userInfo \in UserInfos : GetUserInfoResolve(userInfo)
    \/ GetUserInfoReject
    \/ BackToLogin
    \/ \E files \in FileLists : handleFileChange(files)
    \/ \E value \in SearchInputs : handleSearch(value)
    \/ toggleMyProjects
    \/ onProjectsChange
    \/ \E value \in TabValues : handleTabChange(value)
    \/ \E name \in FieldNames : \E value \in FieldInputs(name) :
           FieldChange(name, value)
    \/ onSubmit
    \/ TimerFire
    \/ AddProjectResolve
    \/ \E error \in Rejections : AddProjectReject(error)

Spec == Init /\ [][Next]_vars

(***************************************************************************)
(* Properties.                                                             *)
(***************************************************************************)
ToastSet == {toasts[i] : i \in 1..Len(toasts)}

RejectionToasts == {ErrorToast(error) : error \in Rejections}

\* A step in which toast() is called once, with t.
Emitted(t) == toasts' = Append(toasts, t)

\* A step in which onSubmit is invoked.
Submitted == submits' = submits + 1

\* A step in which an awaited addProject call settles without success.
RequestFailed == Len(requests') < Len(requests) /\ ~Emitted(SuccessToast)

\* A step in which the mount-time check ends in its catch block.
CheckFailed == authPc # "failed" /\ authPc' = "failed"

\* A step in which the mount-time check receives a user from getUserInfo.
UserReceived ==
    authPc = "awaitUser" /\ authPc' = "ready" /\ currentUsername' # NULL

\* A step that changes nothing but the form values: an edit by the user.
OnlyFormChanges ==
    UNCHANGED <<devMode, isLoading, isClient, screenshot, authError,
                searchTerm, showOnlyMyProjects, currentUsername, activeTab,
                authPc, requests, timers, callVars>>

\* A step that changes nothing but the screenshot: a file-input change.
OnlyScreenshotChanges ==
    UNCHANGED <<devMode, isLoading, isClient, authError, searchTerm,
                showOnlyMyProjects, currentUsername, activeTab, form, authPc,
                requests, timers, callVars>>

\* C1: while a submission that passed the screenshot check has not yet
\* delivered its outcome (its addProject call is awaited, or its timer has
\* not run), isLoading is true and the submit button disabled.
C1_LoadingUntilOutcome ==
    (requests # <<>> \/ timers > 0) => (isLoading /\ SubmitDisabled)

\* C2: the step that emits the "Project added!" toast also makes activeTab
\* "projects", resets the form to its defaults and sets screenshot to null.
C2_TabSwitchesOnSuccess ==
    [][Emitted(SuccessToast) =>
           /\ activeTab' = "projects"
           /\ form' = DefaultValues
           /\ screenshot' = NULL]_vars

\* A production submission has succeeded and left the projects tab showing.
C2_Witness ==
    /\ ~devMode
    /\ addProjectCalls > 0
    /\ SuccessToast \in ToastSet
    /\ activeTab = "projects"
    /\ form = DefaultValues
    /\ screenshot = NULL

\* C3: the check requests router.push("/login") exactly once when it finds
\* the user unauthenticated, and then never calls getUserInfo nor sets
\* currentUsername or authError; otherwise the check requests no navigation
\* (every other push comes from the "Back to Login" button).
C3_RedirectWhenUnauthenticated ==
    /\ authPc = "redirected" =>
           /\ loginPushes = 1
           /\ getUserInfoCalls = 0
           /\ currentUsername = NULL
           /\ authError = NULL
    /\ authPc # "redirected" => loginPushes = tokenRemovals
    /\ authPc \in {"awaitUser", "ready"} => loginPushes = 0

\* The check has redirected, and the page has been used since.
C3_Witness ==
    authPc = "redirected" /\ loginPushes = 1 /\ isClient /\ submits > 0

\* C4: addProject is called only by a step that invokes onSubmit, once, and
\* exactly when that invocation is on the production path with a screenshot;
\* in particular the step that handles a rejection does not call it.
C4_SingleRequestNoRetry ==
    [][/\ addProjectCalls' \in {addProjectCalls, addProjectCalls + 1}
       /\ (addProjectCalls' = addProjectCalls + 1) <=>
              (Submitted /\ ~devMode /\ screenshot # NULL)]_vars

\* A production request was rejected and nothing was sent again.
C4_Witness ==
    /\ ~devMode
    /\ addProjectCalls = 1
    /\ requests = <<>>
    /\ ToastSet \cap RejectionToasts # {}

\* C5: the step in which addProject rejects emits exactly one destructive
\* "Error" toast and no success toast, leaves the form values, the screenshot
\* and activeTab unchanged, and leaves isLoading false.
C5_ErrorBecomesToast ==
    [][RequestFailed =>
           /\ \E t \in RejectionToasts : Emitted(t)
           /\ toasts'[Len(toasts')].title = "Error"
           /\ toasts'[Len(toasts')].variant = "destructive"
           /\ UNCHANGED <<form, screenshot, activeTab>>
           /\ isLoading' = FALSE]_vars

\* A rejection has been reported and the form is ready to be submitted again.
C5_Witness ==
    /\ ToastSet \cap RejectionToasts # {}
    /\ ~isLoading
    /\ screenshot # NULL
    /\ projectSchema(form)
    /\ AddTabView

\* C6: a throw in the mount-time check sets authError without any toast and
\* the authentication-error view replaces the dashboard; authError, once
\* set, is never changed; in that view no dashboard handler runs, and the
\* button removes the token and requests the navigation to "/login" together.
C6_AuthErrorState ==
    [][/\ CheckFailed =>
              /\ authError' # NULL
              /\ toasts' = toasts
              /\ AuthErrorView'
              /\ ~DashboardView'
       /\ authError # NULL => authError' = authError
       /\ AuthErrorView =>
              /\ UNCHANGED <<submits, searchTerm, showOnlyMyProjects>>
              /\ \/ UNCHANGED <<tokenRemovals, loginPushes>>
                 \/ /\ tokenRemovals' = tokenRemovals + 1
                    /\ loginPushes' = loginPushes + 1]_vars

\* getUserInfo threw, and "Back to Login" was pressed in the error view.
C6_Witness ==
    /\ AuthErrorView
    /\ getUserInfoCalls = 1
    /\ tokenRemovals = 1
    /\ loginPushes = 1

\* C7: at no point are two submissions pending at the same time.
C7_NoConcurrentSubmissions == Len(requests) + timers <= 1

\* C8: an invocation of onSubmit with screenshot null emits the one
\* missing-screenshot toast, calls neither addProject nor setTimeout, and
\* leaves isLoading false and the form values, activeTab and screenshot as
\* they were.
C8_MissingScreenshotRejected ==
    [][(Submitted /\ screenshot = NULL) =>
           /\ Emitted(MissingScreenshotToast)
           /\ UNCHANGED <<addProjectCalls, timersScheduled, requests, timers>>
           /\ isLoading = FALSE /\ isLoading' = FALSE
           /\ UNCHANGED <<form, activeTab, screenshot>>]_vars

\* Valid values were submitted without a screenshot and nothing was started.
C8_Witness ==
    /\ MissingScreenshotToast \in ToastSet
    /\ screenshot = NULL
    /\ projectSchema(form)
    /\ addProjectCalls = 0
    /\ timersScheduled = 0

\* C9: screenshot changes only to a file, in a step that changes nothing
\* else (a file-input change), or to null, in the step that emits the success
\* toast; and an invocation of onSubmit with screenshot null is rejected.
\* Hence the first submit after a success is rejected unless a file was
\* chosen in between.
C9_ScreenshotFrame ==
    [][/\ screenshot' # screenshot =>
              \/ screenshot' \in Files /\ OnlyScreenshotChanges /\ AddTabView
              \/ screenshot' = NULL /\ Emitted(SuccessToast)
       /\ Emitted(SuccessToast) => screenshot' = NULL
       /\ (Submitted /\ screenshot = NULL) =>
              Emitted(MissingScreenshotToast)]_vars

\* A success was followed at once by a submit rejected for the missing file.
C9_Witness ==
    /\ Len(toasts) >= 2
    /\ toasts[Len(toasts) - 1] = SuccessToast
    /\ toasts[Len(toasts)] = MissingScreenshotToast
    /\ screenshot = NULL

\* C10: the step that receives the user sets currentUsername to the name and
\* overwrites githubUsername with it (with "" for an empty name); that is the
\* only step that changes currentUsername; afterwards a success leaves
\* githubUsername "" and currentUsername as it was, and githubUsername
\* changes only by a reset or by an edit of the user.
C10_PrefillOnce ==
    [][/\ UserReceived =>
              form'.githubUsername =
                  IF Falsy(currentUsername') THEN "" ELSE currentUsername'
       /\ currentUsername' # currentUsername => UserReceived
       /\ authPc = "ready" => authPc' = "ready"
       /\ (authPc = "ready" /\ Emitted(SuccessToast)) =>
              form'.githubUsername = "" /\ currentUsername' = currentUsername
       /\ (authPc = "ready"
              /\ form'.githubUsername # form.githubUsername) =>
              \/ Emitted(SuccessToast)
              \/ OnlyFormChanges /\ AddTabView]_vars

\* After the pre-fill, a success has emptied the field; the name is kept.
C10_Witness ==
    /\ authPc = "ready"
    /\ currentUsername = "alice"
    /\ Len(toasts) >= 1
    /\ toasts[Len(toasts)] = SuccessToast
    /\ form = DefaultValues
    /\ isLoading = FALSE
====
